---- MODULE Spec2Model ----
(***************************************************************************)
(* Model of markdown-tokens (src/mod.ts): the token scanner parseText, the *)
(* fragment merge concat, and the tree walker parseNode / parseTokens.     *)
(*                                                                         *)
(* A JavaScript string is a sequence of one-character strings.  A node is  *)
(* a record: a text leaf has "type" and "value", a parent has "type" and   *)
(* "children", any other leaf has "type" (and maybe "value"); the optional *)
(* "data" field is a record with the optional fields "tokens" and "token". *)
(* Nodes live in exactly one children list at a time, so the in-place      *)
(* mutation of the source is modelled by replacing the node in that list.  *)
(***************************************************************************)
EXTENDS Integers, Sequences, FiniteSets, TLC

VARIABLES
    text,     \* parseText: the string being scanned
    cursor,   \* parseText: `cursor` (= pattern.lastIndex after each match)
    out,      \* parseText: the fragments yielded so far
    spans,    \* history: the source span consumed for each yielded fragment
    scanpc,   \* parseText: "idle", "scan" (inside the while loop), "done"
    input,    \* parseTokens: the tree as it was passed in
    stack,    \* parseNode: the call stack, innermost call last
    result,   \* parseTokens: the returned root
    pc,       \* parseTokens: "idle", "run", "done", "error"
    fa,       \* concat: three fragments to merge, in this order
    fb,
    fc,
    left,     \* concat(concat(fa, fb), fc), once computed
    right,    \* concat(fa, concat(fb, fc)), once computed
    algpc     \* "idle", "start", "left" (left is computed), "both"

scanVars == <<text, cursor, out, spans, scanpc>>
treeVars == <<input, stack, result, pc>>
algVars == <<fa, fb, fc, left, right, algpc>>
vars == <<scanVars, treeVars, algVars>>

(***************************************************************************)
(* Bounds                                                                  *)
(***************************************************************************)
MaxLen == 7
MaxNodes == 4
MaxNodesAll == 3

WS == {" "}
Chars == {":", "^", " ", "a"}

RECURSIVE StringsOfLen(_)
StringsOfLen(n) ==
    IF n = 0 THEN {<<>>}
    ELSE {Append(s, c) : s \in StringsOfLen(n - 1), c \in Chars}

Strings == UNION {StringsOfLen(n) : n \in 0..MaxLen}

(***************************************************************************)
(* createPattern and RegExp.prototype.exec                                 *)
(***************************************************************************)
IsWs(c) == c \in WS
IsTokenChar(c) == c \notin WS \cup {":", "^"}

CharAt(s, i) == IF i >= 1 /\ i <= Len(s) THEN s[i] ELSE ""

\* Greedy \s* from (1-based) position i: the first position that is no whitespace.
RECURSIVE WsEnd(_, _)
WsEnd(s, i) == IF i <= Len(s) /\ IsWs(s[i]) THEN WsEnd(s, i + 1) ELSE i

\* Greedy [^\^:\s]+ from position i: the first position that is no token character.
RECURSIVE TokenEnd(_, _)
TokenEnd(s, i) == IF i <= Len(s) /\ IsTokenChar(s[i]) THEN TokenEnd(s, i + 1) ELSE i

NoMatch == [found |-> FALSE]

\* (:([^\^:\s]+):) anchored at position i.
MatchNeutral(s, i) ==
    LET t == TokenEnd(s, i + 1) IN
    IF CharAt(s, i) = ":" /\ t > i + 1 /\ CharAt(s, t) = ":"
    THEN [found |-> TRUE, kind |-> "neutral", index |-> i - 1, lastIndex |-> t,
          token |-> SubSeq(s, i + 1, t - 1), lead |-> <<>>, trail |-> <<>>]
    ELSE NoMatch

\* ((\s*):\^([^\^:\s]+):(\s*)) anchored at position i.
MatchBefore(s, i) ==
    LET w == WsEnd(s, i)
        t == TokenEnd(s, w + 2)
        e == WsEnd(s, t + 1)
    IN
    IF CharAt(s, w) = ":" /\ CharAt(s, w + 1) = "^" /\ t > w + 2 /\ CharAt(s, t) = ":"
    THEN [found |-> TRUE, kind |-> "before", index |-> i - 1, lastIndex |-> e - 1,
          token |-> SubSeq(s, w + 2, t - 1),
          lead |-> SubSeq(s, i, w - 1), trail |-> SubSeq(s, t + 1, e - 1)]
    ELSE NoMatch

\* ((\s*):([^\^:\s]+)\^:(\s*)) anchored at position i.
MatchAfter(s, i) ==
    LET w == WsEnd(s, i)
        t == TokenEnd(s, w + 1)
        e == WsEnd(s, t + 2)
    IN
    IF CharAt(s, w) = ":" /\ t > w + 1 /\ CharAt(s, t) = "^" /\ CharAt(s, t + 1) = ":"
    THEN [found |-> TRUE, kind |-> "after", index |-> i - 1, lastIndex |-> e - 1,
          token |-> SubSeq(s, w + 1, t - 1),
          lead |-> SubSeq(s, i, w - 1), trail |-> SubSeq(s, t + 2, e - 1)]
    ELSE NoMatch

\* The alternation at one start position: the first alternative that matches.
MatchAt(s, i) ==
    IF MatchNeutral(s, i).found THEN MatchNeutral(s, i)
    ELSE IF MatchBefore(s, i).found THEN MatchBefore(s, i)
    ELSE MatchAfter(s, i)

\* pattern.exec(text) with pattern.lastIndex = from (0-based): leftmost match.
RECURSIVE exec(_, _)
exec(s, from) ==
    IF from >= Len(s) THEN NoMatch
    ELSE IF MatchAt(s, from + 1).found THEN MatchAt(s, from + 1)
    ELSE exec(s, from + 1)

\* text.slice(from, to) with 0-based, end-exclusive indices.
slice(s, from, to) == SubSeq(s, from + 1, to)

(***************************************************************************)
(* Fragments and parseText                                                 *)
(***************************************************************************)
Fragment(children, before, after, spaceBefore, spaceAfter) ==
    [children |-> children,
     tokens |-> [before |-> before, after |-> after],
     space |-> [before |-> spaceBefore, after |-> spaceAfter]]

EmptyFragment == Fragment(<<>>, <<>>, <<>>, FALSE, FALSE)

\* { type: "text", value } wrapped in a fragment (prefix and suffix).
TextFragment(value) ==
    Fragment(<<[type |-> "text", value |-> value]>>, <<>>, <<>>, FALSE, FALSE)

\* Mutant of MatchFragment: the token leaf has the bare token as its value.
MatchFragmentBareValue(m) ==
    IF m.kind = "neutral"
    THEN Fragment(<<[type |-> "text", value |-> m.token,
                     data |-> [token |-> m.token]]>>, <<>>, <<>>, FALSE, FALSE)
    ELSE IF m.kind = "before"
    THEN Fragment(<<>>, <<m.token>>, <<>>, Len(m.trail) > 0, Len(m.trail) > 0)
    ELSE Fragment(<<>>, <<>>, <<m.token>>, Len(m.lead) > 0, Len(m.lead) > 0)

\* Mutant of MatchFragment: the token leaf is a plain text leaf.
MatchFragmentNoData(m) ==
    IF m.kind = "neutral"
    THEN Fragment(<<[type |-> "text", value |-> <<":">> \o m.token \o <<":">>]>>,
                  <<>>, <<>>, FALSE, FALSE)
    ELSE IF m.kind = "before"
    THEN Fragment(<<>>, <<m.token>>, <<>>, Len(m.trail) > 0, Len(m.trail) > 0)
    ELSE Fragment(<<>>, <<>>, <<m.token>>, Len(m.lead) > 0, Len(m.lead) > 0)

\* Mutant of MatchFragment: :^t: records the whitespace in front of it.
MatchFragmentLeadingSpace(m) ==
    IF m.kind = "neutral"
    THEN Fragment(<<[type |-> "text", value |-> <<":">> \o m.token \o <<":">>,
                     data |-> [token |-> m.token]]>>, <<>>, <<>>, FALSE, FALSE)
    ELSE IF m.kind = "before"
    THEN Fragment(<<>>, <<m.token>>, <<>>, Len(m.lead) > 0, Len(m.lead) > 0)
    ELSE Fragment(<<>>, <<>>, <<m.token>>, Len(m.lead) > 0, Len(m.lead) > 0)

\* The fragment yielded for one match of the pattern.
MatchFragment(m) ==
    IF m.kind = "neutral"
    THEN Fragment(<<[type |-> "text", value |-> <<":">> \o m.token \o <<":">>,
                     data |-> [token |-> m.token]]>>, <<>>, <<>>, FALSE, FALSE)
    ELSE IF m.kind = "before"
    THEN Fragment(<<>>, <<m.token>>, <<>>, Len(m.trail) > 0, Len(m.trail) > 0)
    ELSE Fragment(<<>>, <<>>, <<m.token>>, Len(m.lead) > 0, Len(m.lead) > 0)

\* One iteration of the while loop of parseText (a match), or the code after
\* the loop (no match): the fragments yielded, the source spans they consume
\* (prefix and match[0], or the suffix) and the new cursor.
ScanStep(s, cur) ==
    LET m == exec(s, cur) IN
    IF m.found
    THEN LET prefix == slice(s, cur, m.index)
             whole == slice(s, m.index, m.lastIndex)
         IN [done |-> FALSE, cursor |-> m.lastIndex,
             frags |-> (IF Len(prefix) > 0 THEN <<TextFragment(prefix)>> ELSE <<>>)
                       \o <<MatchFragment(m)>>,
             spans |-> (IF Len(prefix) > 0 THEN <<prefix>> ELSE <<>>) \o <<whole>>]
    ELSE LET suffix == slice(s, cur, Len(s))
         IN [done |-> TRUE, cursor |-> cur,
             frags |-> IF Len(suffix) > 0 THEN <<TextFragment(suffix)>> ELSE <<>>,
             spans |-> IF Len(suffix) > 0 THEN <<suffix>> ELSE <<>>]

\* All fragments of parseText(text), in the order the generator yields them.
RECURSIVE parseTextFrom(_, _)
parseTextFrom(s, cur) ==
    LET r == ScanStep(s, cur) IN
    IF r.done THEN r.frags ELSE r.frags \o parseTextFrom(s, r.cursor)

parseText(s) == parseTextFrom(s, 0)

(***************************************************************************)
(* The scanner as a state machine (specification SpecText)                 *)
(***************************************************************************)
TreeIdle ==
    /\ input = <<>>
    /\ stack = <<>>
    /\ result = <<>>
    /\ pc = "idle"

AlgIdle ==
    /\ fa = EmptyFragment
    /\ fb = EmptyFragment
    /\ fc = EmptyFragment
    /\ left = <<>>
    /\ right = <<>>
    /\ algpc = "idle"

InitText ==
    /\ text \in Strings
    /\ cursor = 0
    /\ out = <<>>
    /\ spans = <<>>
    /\ scanpc = "scan"
    /\ TreeIdle
    /\ AlgIdle

\* while ((match = pattern.exec(text)) !== null) { ... }
ScanMatch ==
    /\ scanpc = "scan"
    /\ ~ScanStep(text, cursor).done
    /\ cursor' = ScanStep(text, cursor).cursor
    /\ out' = out \o ScanStep(text, cursor).frags
    /\ spans' = spans \o ScanStep(text, cursor).spans
    /\ UNCHANGED <<text, scanpc, treeVars, algVars>>

\* exec returned null: the text after the last token, then the generator ends.
ScanEnd ==
    /\ scanpc = "scan"
    /\ ScanStep(text, cursor).done
    /\ out' = out \o ScanStep(text, cursor).frags
    /\ spans' = spans \o ScanStep(text, cursor).spans
    /\ scanpc' = "done"
    /\ UNCHANGED <<text, cursor, treeVars, algVars>>

NextText == ScanMatch \/ ScanEnd

SpecText == InitText /\ [][NextText]_vars

(***************************************************************************)
(* Helpers of src/mod.ts                                                   *)
(***************************************************************************)
isText(node) == node.type = "text"

isParent(node) == "children" \in DOMAIN node

isToken(node) == isText(node) /\ "data" \in DOMAIN node /\ "token" \in DOMAIN node.data

\* node.data?.tokens, with the undefined list read as empty.
TokensOf(node) ==
    IF "data" \in DOMAIN node /\ "tokens" \in DOMAIN node.data
    THEN node.data.tokens ELSE <<>>

\* The record r with r.k set to v (the field is created when it is missing).
WithField(r, k, v) == [x \in DOMAIN r \cup {k} |-> IF x = k THEN v ELSE r[x]]

\* Mutant of pushTokens: the new tokens are put in front of the old ones.
pushTokensPrepend(node, tokens) ==
    IF Len(tokens) = 0 THEN node
    ELSE LET data == IF "data" \in DOMAIN node THEN node.data ELSE <<>>
         IN WithField(node, "data", WithField(data, "tokens", tokens \o TokensOf(node)))

pushTokens(node, tokens) ==
    IF Len(tokens) = 0 THEN node
    ELSE LET data == IF "data" \in DOMAIN node THEN node.data ELSE <<>>
         IN WithField(node, "data", WithField(data, "tokens", TokensOf(node) \o tokens))

\* The children list with pushTokens applied to its last / first element.
\* Mutant of PushLast: the tokens go to the first child instead of the last.
PushLastWrongEnd(children, tokens) ==
    [children EXCEPT ![1] = pushTokens(children[1], tokens)]

PushLast(children, tokens) ==
    [children EXCEPT ![Len(children)] = pushTokens(children[Len(children)], tokens)]

\* Mutant of PushFirst: the call pushTokens(childAfter, ...) is left out.
PushFirstForgotten(children, tokens) == children

PushFirst(children, tokens) ==
    [children EXCEPT ![1] = pushTokens(children[1], tokens)]

SpaceLeaf == [type |-> "text", value |-> <<" ">>]

\* Mutant of concat: two childless fragments keep the space flags of the second.
concatDropsSpace(a, b) ==
    LET noBefore == Len(a.children) = 0
        noAfter == Len(b.children) = 0
    IN
    IF noBefore /\ noAfter
    THEN Fragment(<<>>,
                  a.tokens.before \o b.tokens.before,
                  a.tokens.after \o b.tokens.after,
                  b.space.before,
                  b.space.after)
    ELSE IF noBefore
    THEN Fragment(PushFirst(b.children, a.tokens.after),
                  a.tokens.before \o b.tokens.before,
                  b.tokens.after,
                  a.space.before \/ b.space.before,
                  b.space.after)
    ELSE IF noAfter
    THEN Fragment(PushLast(a.children, b.tokens.before),
                  a.tokens.before,
                  a.tokens.after \o b.tokens.after,
                  a.space.before,
                  a.space.after \/ b.space.after)
    ELSE Fragment(PushLast(a.children, b.tokens.before)
                    \o (IF a.space.after \/ b.space.before THEN <<SpaceLeaf>> ELSE <<>>)
                    \o PushFirst(b.children, a.tokens.after),
                  a.tokens.before,
                  b.tokens.after,
                  a.space.before,
                  b.space.after)

\* Mutant of concat: two fragments with children are always joined by " ".
concatAlwaysSpace(a, b) ==
    LET noBefore == Len(a.children) = 0
        noAfter == Len(b.children) = 0
    IN
    IF noBefore /\ noAfter
    THEN Fragment(<<>>,
                  a.tokens.before \o b.tokens.before,
                  a.tokens.after \o b.tokens.after,
                  a.space.before \/ b.space.before,
                  a.space.after \/ b.space.after)
    ELSE IF noBefore
    THEN Fragment(PushFirst(b.children, a.tokens.after),
                  a.tokens.before \o b.tokens.before,
                  b.tokens.after,
                  a.space.before \/ b.space.before,
                  b.space.after)
    ELSE IF noAfter
    THEN Fragment(PushLast(a.children, b.tokens.before),
                  a.tokens.before,
                  a.tokens.after \o b.tokens.after,
                  a.space.before,
                  a.space.after \/ b.space.after)
    ELSE Fragment(PushLast(a.children, b.tokens.before)
                    \o <<SpaceLeaf>>
                    \o PushFirst(b.children, a.tokens.after),
                  a.tokens.before,
                  b.tokens.after,
                  a.space.before,
                  b.space.after)

concat(a, b) ==
    LET noBefore == Len(a.children) = 0
        noAfter == Len(b.children) = 0
    IN
    IF noBefore /\ noAfter
    THEN Fragment(<<>>,
                  a.tokens.before \o b.tokens.before,
                  a.tokens.after \o b.tokens.after,
                  a.space.before \/ b.space.before,
                  a.space.after \/ b.space.after)
    ELSE IF noBefore
    THEN Fragment(PushFirst(b.children, a.tokens.after),
                  a.tokens.before \o b.tokens.before,
                  b.tokens.after,
                  a.space.before \/ b.space.before,
                  b.space.after)
    ELSE IF noAfter
    THEN Fragment(PushLast(a.children, b.tokens.before),
                  a.tokens.before,
                  a.tokens.after \o b.tokens.after,
                  a.space.before,
                  a.space.after \/ b.space.after)
    ELSE Fragment(PushLast(a.children, b.tokens.before)
                    \o (IF a.space.after \/ b.space.before THEN <<SpaceLeaf>> ELSE <<>>)
                    \o PushFirst(b.children, a.tokens.after),
                  a.tokens.before,
                  b.tokens.after,
                  a.space.before,
                  b.space.after)

\* child.data?.tokens?.length ?? 0 > 0, which JavaScript reads as
\* child.data?.tokens?.length ?? (0 > 0): truthy iff the list exists and is
\* not empty.
\* Mutant of HasTokens: the guard never fires.
HasTokensNever(child) == FALSE

HasTokens(child) == Len(TokensOf(child)) > 0

\* The end of parseNode, after the loop: the empty paragraph returns its state,
\* any other node takes the children and the leftover tokens.
\* Mutant of Dissolves: the empty paragraph is kept like any other node.
DissolvesNever(node, state) == FALSE

Dissolves(node, state) == node.type = "paragraph" /\ Len(state.children) = 0

\* Mutant of Applied: the leftover after tokens are put first.
AppliedAfterFirst(node, state) ==
    pushTokens([node EXCEPT !.children = state.children],
               state.tokens.after \o state.tokens.before)

Applied(node, state) ==
    pushTokens([node EXCEPT !.children = state.children],
               state.tokens.before \o state.tokens.after)

ParseNodeResult(node, state) ==
    IF Dissolves(node, state) THEN state
    ELSE Fragment(<<Applied(node, state)>>, <<>>, <<>>, FALSE, FALSE)

(***************************************************************************)
(* Input trees                                                             *)
(*                                                                         *)
(* A tree is drawn with every token and every plain text written as the    *)
(* placeholder "x"; Label then gives each node its `position` (the unist   *)
(* field, here the preorder number of the node) and replaces the k-th      *)
(* placeholder of the document by the k-th letter, so that every token and *)
(* every text of one input is distinct.                                    *)
(***************************************************************************)
Letters == <<"a", "b", "c", "d", "e", "f", "g", "h", "i", "j", "k", "l">>

\* The texts that decide where a token goes: plain text and the four
\* assignment markers that differ in kind or in the whitespace they record.
CoreValues ==
    { <<"x">>,                                   \* plain text
      <<":", "^", "x", ":">>,                    \* :^x:
      <<":", "^", "x", ":", " ">>,               \* :^x: with trailing whitespace
      <<":", "x", "^", ":">>,                    \* :x^:
      <<" ", ":", "x", "^", ":">>,               \* :x^: with leading whitespace
      <<":", "^", "x", ":", " ", ":", "x", "^", ":">> }   \* :^x: :x^:

OtherValues ==
    { <<":", "x", ":">>,                         \* :x:
      <<":", "x", "^", ":", " ", ":", "x", "^", ":">>,   \* :x^: :x^:
      <<":", "^", "x", "^", ":">>,               \* :^x^: (no token)
      <<>> }                                     \* the empty string

CoreLeaves == { [type |-> "text", value |-> v] : v \in CoreValues }

AllLeaves ==
    CoreLeaves
    \cup { [type |-> "text", value |-> v] : v \in OtherValues }
    \cup { [type |-> "text", value |-> <<"x">>, data |-> [tokens |-> <<>>]],
           [type |-> "text", value |-> <<"x">>, data |-> [tokens |-> << <<"t">> >>]],
           [type |-> "text", value |-> <<"x">>, data |-> [token |-> <<"t">>]],
           [type |-> "inlineCode", value |-> <<"x">>] }

ParentTypes == {"paragraph", "emphasis"}

\* All children lists with exactly n nodes in total, at any depth.
RECURSIVE Forests(_, _)
Forests(n, leaves) ==
    IF n = 0 THEN {<<>>}
    ELSE { <<leaf>> \o rest : leaf \in leaves, rest \in Forests(n - 1, leaves) }
         \cup UNION { { <<[type |-> t, children |-> inner]>> \o rest :
                           t \in ParentTypes, inner \in Forests(j, leaves),
                           rest \in Forests(n - 1 - j, leaves) }
                      : j \in 0..(n - 1) }

\* value with each placeholder replaced by the next letter, from letter k on.
RECURSIVE LabelValue(_, _)
LabelValue(v, k) ==
    IF Len(v) = 0 THEN [value |-> <<>>, letter |-> k]
    ELSE LET r == LabelValue(Tail(v), IF Head(v) = "x" THEN k + 1 ELSE k)
         IN [value |-> <<IF Head(v) = "x" THEN Letters[k] ELSE Head(v)>> \o r.value,
             letter |-> r.letter]

RECURSIVE LabelNode(_, _, _)
RECURSIVE LabelList(_, _, _)
\* The node labelled from position p and letter k on, with the next free ones.
LabelNode(node, p, k) ==
    IF isParent(node)
    THEN LET r == LabelList(node.children, p + 1, k)
         IN [node |-> WithField([node EXCEPT !.children = r.list], "position", p),
             position |-> r.position, letter |-> r.letter]
    ELSE IF "value" \in DOMAIN node
    THEN LET r == LabelValue(node.value, k)
         IN [node |-> WithField([node EXCEPT !.value = r.value], "position", p),
             position |-> p + 1, letter |-> r.letter]
    ELSE [node |-> WithField(node, "position", p), position |-> p + 1, letter |-> k]

LabelList(list, p, k) ==
    IF Len(list) = 0 THEN [list |-> <<>>, position |-> p, letter |-> k]
    ELSE LET h == LabelNode(Head(list), p, k)
             r == LabelList(Tail(list), h.position, h.letter)
         IN [list |-> <<h.node>> \o r.list, position |-> r.position, letter |-> r.letter]

Inputs ==
    { LabelNode([type |-> "root", children |-> f], 0, 1).node :
        f \in UNION { Forests(n, CoreLeaves) : n \in 0..MaxNodes }
              \cup UNION { Forests(n, AllLeaves) : n \in 0..MaxNodesAll } }

(***************************************************************************)
(* parseTokens and parseNode as a state machine (specification Spec)       *)
(***************************************************************************)
NewFrame(node) == [node |-> node, i |-> 0, state |-> EmptyFragment, frags |-> <<>>]

ScannerIdle ==
    /\ text = <<>>
    /\ cursor = 0
    /\ out = <<>>
    /\ spans = <<>>
    /\ scanpc = "idle"

Init ==
    /\ input \in Inputs
    /\ stack = <<NewFrame(input)>>
    /\ result = <<>>
    /\ pc = "run"
    /\ ScannerIdle
    /\ AlgIdle

Top == stack[Len(stack)]
Child == Top.node.children[Top.i + 1]
SetTop(frame) == [stack EXCEPT ![Len(stack)] = frame]

\* At the head of the for loop of the innermost parseNode, with a child left.
AtChild ==
    /\ pc = "run"
    /\ Len(Top.frags) = 0
    /\ Top.i < Len(Top.node.children)

\* After the for loop of the innermost parseNode.
AtEnd ==
    /\ pc = "run"
    /\ Len(Top.frags) = 0
    /\ Top.i = Len(Top.node.children)

\* if (isParent(child)) { const result = parseNode(child); ...
EnterParent ==
    /\ AtChild
    /\ isParent(Child)
    /\ stack' = Append(stack, NewFrame(Child))
    /\ UNCHANGED <<scanVars, algVars, input, result, pc>>

\* throw new Error("Text node already has tokens. This is not supported.")
ThrowHasTokens ==
    /\ AtChild
    /\ ~isParent(Child) /\ isText(Child)
    /\ HasTokens(Child)
    /\ pc' = "error"
    /\ UNCHANGED <<scanVars, algVars, input, stack, result>>

\* for (const fragment of parseText(child.value)): the generator is started;
\* a text that yields nothing ends the loop body at once.
ScanTextChild ==
    /\ AtChild
    /\ ~isParent(Child) /\ isText(Child)
    /\ ~HasTokens(Child)
    /\ LET frags == parseText(Child.value) IN
       stack' = SetTop([Top EXCEPT !.frags = frags,
                                   !.i = IF Len(frags) = 0 THEN @ + 1 ELSE @])
    /\ UNCHANGED <<scanVars, algVars, input, result, pc>>

\* state = concat(state, fragment) for the next fragment of the text child.
ConcatFragment ==
    /\ pc = "run"
    /\ Len(Top.frags) > 0
    /\ stack' = SetTop([Top EXCEPT !.state = concat(@, Head(Top.frags)),
                                   !.frags = Tail(@),
                                   !.i = IF Len(Top.frags) = 1 THEN @ + 1 ELSE @])
    /\ UNCHANGED <<scanVars, algVars, input, result, pc>>

\* Any remaining literal node should just be appended.
AppendLiteral ==
    /\ AtChild
    /\ ~isParent(Child) /\ ~isText(Child)
    /\ stack' = SetTop([Top EXCEPT
                          !.state = concat(@, Fragment(<<Child>>, <<>>, <<>>, FALSE, FALSE)),
                          !.i = @ + 1])
    /\ UNCHANGED <<scanVars, algVars, input, result, pc>>

\* The caller's `state = concat(state, result)` for a returning parseNode.
ReturnTo(frag) ==
    LET caller == stack[Len(stack) - 1] IN
    stack' = [SubSeq(stack, 1, Len(stack) - 1) EXCEPT
                ![Len(stack) - 1] = [caller EXCEPT !.state = concat(@, frag), !.i = @ + 1]]

\* A nested parseNode returns the state of an empty paragraph.
ReturnDissolved ==
    /\ AtEnd
    /\ Len(stack) > 1
    /\ Dissolves(Top.node, Top.state)
    /\ ReturnTo(ParseNodeResult(Top.node, Top.state))
    /\ UNCHANGED <<scanVars, algVars, input, result, pc>>

\* A nested parseNode returns its node with the children and tokens applied.
ReturnApplied ==
    /\ AtEnd
    /\ Len(stack) > 1
    /\ ~Dissolves(Top.node, Top.state)
    /\ ReturnTo(ParseNodeResult(Top.node, Top.state))
    /\ UNCHANGED <<scanVars, algVars, input, result, pc>>

Undefined == [type |-> "undefined"]

\* parseTokens: parseNode(root) returns and fragment.children[0] is the result.
ReturnRoot ==
    /\ AtEnd
    /\ Len(stack) = 1
    /\ LET fragment == ParseNodeResult(Top.node, Top.state) IN
       result' = IF Len(fragment.children) > 0 THEN fragment.children[1] ELSE Undefined
    /\ stack' = <<>>
    /\ pc' = "done"
    /\ UNCHANGED <<scanVars, algVars, input>>

Next ==
    \/ EnterParent
    \/ ThrowHasTokens
    \/ ScanTextChild
    \/ ConcatFragment
    \/ AppendLiteral
    \/ ReturnDissolved
    \/ ReturnApplied
    \/ ReturnRoot

Spec == Init /\ [][Next]_vars

(***************************************************************************)
(* The token grammar, stated on whole strings (README "Basics" and         *)
(* "Assignment"): TOKEN, NEUTRAL = :TOKEN:, BEFORE = ws :^TOKEN: ws,       *)
(* AFTER = ws :TOKEN^: ws.  Used by the properties, not by the program.    *)
(***************************************************************************)
IsTokenString(t) ==
    /\ Len(t) > 0
    /\ \A k \in 1..Len(t) : t[k] \notin WS \cup {":", "^"}

InNEUTRAL(s) ==
    /\ Len(s) >= 3
    /\ s[1] = ":" /\ s[Len(s)] = ":"
    /\ IsTokenString(SubSeq(s, 2, Len(s) - 1))

BeforeCore(s) ==
    /\ Len(s) >= 4
    /\ s[1] = ":" /\ s[2] = "^" /\ s[Len(s)] = ":"
    /\ IsTokenString(SubSeq(s, 3, Len(s) - 1))

AfterCore(s) ==
    /\ Len(s) >= 4
    /\ s[1] = ":" /\ s[Len(s) - 1] = "^" /\ s[Len(s)] = ":"
    /\ IsTokenString(SubSeq(s, 2, Len(s) - 2))

\* s is whitespace, a core, whitespace.
Padded(s, Core(_)) ==
    \E i \in 1..Len(s) : \E j \in i..Len(s) :
        /\ \A k \in 1..(i - 1) : s[k] \in WS
        /\ \A k \in (j + 1)..Len(s) : s[k] \in WS
        /\ Core(SubSeq(s, i, j))

InBEFORE(s) == Padded(s, BeforeCore)
InAFTER(s) == Padded(s, AfterCore)

\* Some substring of s is a token of one of the three kinds.
HasTokenSyntax(s) ==
    \E i \in 1..Len(s) : \E j \in i..Len(s) :
        LET w == SubSeq(s, i, j) IN InNEUTRAL(w) \/ BeforeCore(w) \/ AfterCore(w)

\* The identifier inside a string of BEFORE or AFTER.
IdentifierOf(s) == SelectSeq(s, LAMBDA c : c \notin WS \cup {":", "^"})

\* The source spans parseText cuts a text into (prefix, match[0], ..., suffix).
RECURSIVE SpansFrom(_, _)
SpansFrom(s, cur) ==
    LET r == ScanStep(s, cur) IN
    IF r.done THEN r.spans ELSE r.spans \o SpansFrom(s, r.cursor)

SpansOf(s) == SpansFrom(s, 0)

(***************************************************************************)
(* Properties of the scanner (specification SpecText)                      *)
(***************************************************************************)
RECURSIVE Flatten(_)
Flatten(seqs) == IF Len(seqs) = 0 THEN <<>> ELSE Head(seqs) \o Flatten(Tail(seqs))

IsAssignmentSpan(span) == InBEFORE(span) \/ InAFTER(span)

\* Fragment k is a text leaf whose value is its span, or a childless fragment
\* with the one token of its BEFORE or AFTER span.
FragmentCoversSpan(frag, span) ==
    IF Len(frag.children) > 0
    THEN /\ Len(frag.children) = 1
         /\ frag.children[1].type = "text"
         /\ frag.children[1].value = span
         /\ frag.tokens = [before |-> <<>>, after |-> <<>>]
         /\ ~IsAssignmentSpan(span)
         /\ InNEUTRAL(span) \/ ~HasTokenSyntax(span)
    ELSE \/ /\ InBEFORE(span)
            /\ frag.tokens = [before |-> <<IdentifierOf(span)>>, after |-> <<>>]
         \/ /\ InAFTER(span)
            /\ frag.tokens = [before |-> <<>>, after |-> <<IdentifierOf(span)>>]

LeafValues(frags) ==
    Flatten([k \in 1..Len(frags) |->
                IF Len(frags[k].children) > 0 THEN frags[k].children[1].value ELSE <<>>])

\* C6: the fragments of parseText cover the text: the spans consumed so far
\* are the text up to the cursor (all of it at the end) with nothing skipped
\* or repeated, each text leaf holds exactly its span, each childless fragment
\* stands for exactly one BEFORE or AFTER span, and the leaf values alone are
\* the text with those spans deleted.
C6_ScannerCoverage ==
    scanpc \in {"scan", "done"} =>
        /\ Len(out) = Len(spans)
        /\ Flatten(spans) = (IF scanpc = "done" THEN text ELSE SubSeq(text, 1, cursor))
        /\ \A k \in 1..Len(out) : Len(spans[k]) > 0 /\ FragmentCoversSpan(out[k], spans[k])
        /\ LeafValues(out) = Flatten(SelectSeq(spans, LAMBDA w : ~IsAssignmentSpan(w)))

\* A finished scan that yielded a text leaf and an assignment token whose
\* span holds whitespace.
C6_Witness ==
    /\ scanpc = "done"
    /\ \E k \in 1..Len(out) : Len(out[k].children) > 0
    /\ \E k \in 1..Len(out) : Len(out[k].children) = 0 /\ out[k].space.after

(***************************************************************************)
(* The documented result, computed by position instead of by folding.      *)
(*                                                                         *)
(* The items of a container are what its children leave at its level, in   *)
(* order: a surviving node, or an assignment marker (of a text child or of  *)
(* a dissolved paragraph).  A marker names its token, the whitespace its    *)
(* own match holds on its significant side (`space`), and whether the       *)
(* source text has whitespace next to it on that side (`srcSpace`).         *)
(*                                                                         *)
(* `mode` selects the reading: "code" is the behaviour of the program,      *)
(* "beforeFirst" puts the before tokens of a node ahead of its after        *)
(* tokens, "sourceSpace" inserts the whitespace leaf by `srcSpace`.         *)
(***************************************************************************)
\* The node with the given tokens as its (so far missing) data.tokens.
WithTokens(node, tokens) ==
    IF Len(tokens) = 0 THEN node
    ELSE WithField(node, "data",
                   WithField(IF "data" \in DOMAIN node THEN node.data ELSE <<>>, "tokens", tokens))

NodeItem(node, before, after) ==
    [kind |-> "node", node |-> node, id |-> <<>>, space |-> FALSE, srcSpace |-> FALSE,
     before |-> before, after |-> after]

MarkerItem(kind, id, space, srcSpace) ==
    [kind |-> kind, node |-> <<>>, id |-> id, space |-> space, srcSpace |-> srcSpace,
     before |-> <<>>, after |-> <<>>]

\* The item of the k-th span of a text.
SpanItem(sp, k) ==
    LET w == sp[k]
        eaten == k > 1 /\ IsAssignmentSpan(sp[k - 1]) /\ sp[k - 1][Len(sp[k - 1])] \in WS
    IN
    IF InBEFORE(w)
    THEN MarkerItem("before", IdentifierOf(w), w[Len(w)] \in WS, w[Len(w)] \in WS)
    ELSE IF InAFTER(w)
    THEN MarkerItem("after", IdentifierOf(w), w[1] \in WS, w[1] \in WS \/ eaten)
    ELSE IF InNEUTRAL(w)
    THEN NodeItem([type |-> "text", value |-> w,
                   data |-> [token |-> SubSeq(w, 2, Len(w) - 1)]], <<>>, <<>>)
    ELSE NodeItem([type |-> "text", value |-> w], <<>>, <<>>)

IsNodeAt(items, j) == items[j].kind = "node"

\* The surviving node next to position i on either side (0 and Len + 1: none).
PrevNode(items, i) ==
    LET c == {j \in 1..(i - 1) : IsNodeAt(items, j)} IN
    IF c = {} THEN 0 ELSE CHOOSE j \in c : \A k \in c : k <= j

NextNode(items, i) ==
    LET c == {j \in (i + 1)..Len(items) : IsNodeAt(items, j)} IN
    IF c = {} THEN Len(items) + 1 ELSE CHOOSE j \in c : \A k \in c : k >= j

\* The tokens of the markers of one kind at positions lo..hi, in order.
RECURSIVE MarkerIds(_, _, _, _)
MarkerIds(items, lo, hi, kind) ==
    IF lo > hi THEN <<>>
    ELSE (IF items[lo].kind = kind THEN <<items[lo].id>> ELSE <<>>)
         \o MarkerIds(items, lo + 1, hi, kind)

LeftoverBefore(items) == MarkerIds(items, 1, NextNode(items, 0) - 1, "before")
LeftoverAfter(items) == MarkerIds(items, PrevNode(items, Len(items) + 1) + 1, Len(items), "after")

\* The surviving node at position i with the tokens it is given.
RefNode(items, i, mode) ==
    LET it == items[i]
        sibAfter == MarkerIds(items, PrevNode(items, i) + 1, i - 1, "after")
        sibBefore == MarkerIds(items, i + 1, NextNode(items, i) - 1, "before")
    IN WithTokens(it.node,
                  IF mode = "beforeFirst"
                  THEN it.before \o sibBefore \o sibAfter \o it.after
                  ELSE it.before \o it.after \o sibAfter \o sibBefore)

SpaceBetween(items, i, j, mode) ==
    \E k \in (i + 1)..(j - 1) :
        IF mode = "sourceSpace" THEN items[k].srcSpace ELSE items[k].space

\* The children a container ends up with, from position i on.
RECURSIVE RefChildren(_, _, _)
RefChildren(items, i, mode) ==
    IF i > Len(items) THEN <<>>
    ELSE IF ~IsNodeAt(items, i) THEN RefChildren(items, i + 1, mode)
    ELSE <<RefNode(items, i, mode)>>
         \o (IF NextNode(items, i) <= Len(items)
                /\ SpaceBetween(items, i, NextNode(items, i), mode)
             THEN <<SpaceLeaf>> ELSE <<>>)
         \o RefChildren(items, i + 1, mode)

RECURSIVE Items(_, _)
RECURSIVE ChildItems(_, _)

\* What one child leaves at the level of its parent.
ChildItems(child, mode) ==
    IF isParent(child)
    THEN LET items == Items(child, mode) IN
         IF child.type = "paragraph" /\ \A j \in 1..Len(items) : ~IsNodeAt(items, j)
         THEN items
         ELSE <<NodeItem([child EXCEPT !.children = RefChildren(items, 1, mode)],
                         LeftoverBefore(items), LeftoverAfter(items))>>
    ELSE IF isText(child)
    THEN LET sp == SpansOf(child.value) IN [k \in 1..Len(sp) |-> SpanItem(sp, k)]
    ELSE <<NodeItem(child, <<>>, <<>>)>>

Items(node, mode) ==
    Flatten([k \in 1..Len(node.children) |-> ChildItems(node.children[k], mode)])

\* The documented result of parseTokens(root).
Ref(root, mode) ==
    LET items == Items(root, mode) IN
    WithTokens([root EXCEPT !.children = RefChildren(items, 1, mode)],
               LeftoverBefore(items) \o LeftoverAfter(items))

(***************************************************************************)
(* Views of a tree used by the properties                                  *)
(***************************************************************************)
\* In the inputs of Spec no text is a lone space, so a text leaf " " of
\* the result is one that concat made.
IsSpaceLeaf(node) == isText(node) /\ node.value = <<" ">>

PositionOf(node) == IF "position" \in DOMAIN node THEN node.position ELSE -1
ValueOf(node) == IF "value" \in DOMAIN node THEN node.value ELSE <<>>
ChildrenOf(node) == IF isParent(node) THEN node.children ELSE <<>>

ToSet(seq) == {seq[k] : k \in 1..Len(seq)}

\* Every node with its tokens in order, the whitespace leaves left out.
RECURSIVE TokenLists(_)
TokenLists(node) ==
    LET kept == SelectSeq(ChildrenOf(node), LAMBDA c : ~IsSpaceLeaf(c)) IN
    [type |-> node.type, position |-> PositionOf(node), value |-> ValueOf(node),
     tokens |-> TokensOf(node),
     children |-> [k \in 1..Len(kept) |-> TokenLists(kept[k])]]

\* Every node with the set of its tokens, the whitespace leaves left out.
RECURSIVE TokenSets(_)
TokenSets(node) ==
    LET kept == SelectSeq(ChildrenOf(node), LAMBDA c : ~IsSpaceLeaf(c)) IN
    [type |-> node.type, position |-> PositionOf(node), value |-> ValueOf(node),
     tokens |-> ToSet(TokensOf(node)),
     children |-> [k \in 1..Len(kept) |-> TokenSets(kept[k])]]

\* The tree without any metadata.
RECURSIVE Shape(_)
Shape(node) ==
    [type |-> node.type, position |-> PositionOf(node), value |-> ValueOf(node),
     children |-> [k \in 1..Len(ChildrenOf(node)) |-> Shape(node.children[k])]]

\* All nodes of a tree, the tree itself included.
RECURSIVE Nodes(_)
Nodes(node) ==
    {node} \cup UNION {Nodes(node.children[k]) : k \in 1..Len(ChildrenOf(node))}

Parents(node) == {n \in Nodes(node) : isParent(n)}

\* The text leaves of a tree in document order.
RECURSIVE TextLeafSeq(_)
TextLeafSeq(node) ==
    IF isText(node) THEN <<node>>
    ELSE Flatten([k \in 1..Len(ChildrenOf(node)) |-> TextLeafSeq(node.children[k])])

AllItems(node) == Items(node, "code")
IdsOfKind(items, kind) == MarkerIds(items, 1, Len(items), kind)

(***************************************************************************)
(* Properties of the tree walk (specification Spec)                        *)
(***************************************************************************)

\* C1 (as amended): after parseTokens returns, the tokens of every node are, in
\* this order: for a container, its own leftover before tokens and then its own
\* leftover after tokens; then the after tokens of the markers in front of the
\* node, in encounter order; then the before tokens of the markers behind it,
\* in encounter order.
C1_TokenOrder ==
    pc = "done" => TokenLists(result) = TokenLists(Ref(input, "code"))

\* C1 as stated: on every node all before tokens come first, then all after
\* tokens.
C1_AsStated ==
    pc = "done" => TokenLists(result) = TokenLists(Ref(input, "beforeFirst"))

\* A node of the result that got both an after token (from the marker in front
\* of it) and a before token (from the marker behind it).
C1_Witness ==
    /\ pc = "done"
    /\ \E n \in Nodes(result) : \E c \in Parents(input) :
         LET items == AllItems(c) IN
         \E i \in 1..Len(items) :
            /\ IsNodeAt(items, i)
            /\ Shape(items[i].node) = Shape(n)
            /\ Len(MarkerIds(items, PrevNode(items, i) + 1, i - 1, "after")) > 0
            /\ Len(MarkerIds(items, i + 1, NextNode(items, i) - 1, "before")) > 0
            /\ Len(TokensOf(n)) >= 2

\* C2 (as amended): in a container that survives, a :^x: marker gives x to the
\* nearest surviving child before it and a :x^: marker gives x to the nearest
\* surviving child after it; x goes to the container itself exactly when there is
\* no such child on that side.  (A paragraph left without children does not
\* survive: its markers act in the fold of its parent.)
C2_NeighborPrecedence ==
    pc = "done" => TokenSets(result) = TokenSets(Ref(input, "code"))

\* The node of the result that a container of the input became, if any.
Became(c) == {n \in Nodes(result) : isParent(n) /\ PositionOf(n) = c.position}

\* C2 as stated: the same, and every container, dissolved or not, holds the
\* tokens of its markers that have no surviving child on their side.
C2_AsStated ==
    pc = "done" =>
        /\ TokenSets(result) = TokenSets(Ref(input, "code"))
        /\ \A c \in Parents(input) :
             \A x \in ToSet(LeftoverBefore(AllItems(c)) \o LeftoverAfter(AllItems(c))) :
                \E n \in Became(c) : x \in ToSet(TokensOf(n))

\* A surviving paragraph with a container child that took a token and a marker
\* that fell back to the paragraph.
C2_Witness ==
    /\ pc = "done"
    /\ \E n \in Parents(result) :
         /\ n.type = "paragraph"
         /\ Len(TokensOf(n)) > 0
         /\ \E k \in 1..Len(n.children) :
              isParent(n.children[k]) /\ Len(TokensOf(n.children[k])) > 0

\* seq holds the elements of part next to each other and in the same order.
IsInfix(part, seq) ==
    \E k \in 0..(Len(seq) - Len(part)) : SubSeq(seq, k + 1, k + Len(part)) = part

\* The items the children 1..k of a container leave at its level.
ItemsUpTo(c, k) == Flatten([j \in 1..k |-> ChildItems(c.children[j], "code")])

\* The paragraph at c.children[k] is left without children by the walk.
IsDissolved(c, k) ==
    /\ isParent(c.children[k])
    /\ c.children[k].type = "paragraph"
    /\ \A j \in 1..Len(AllItems(c.children[k])) : ~IsNodeAt(AllItems(c.children[k]), j)

\* The children of the node that container c became, whitespace leaves left out.
KeptChildrenOf(c) ==
    LET n == CHOOSE n \in Became(c) : TRUE IN
    SelectSeq(n.children, LAMBDA x : ~IsSpaceLeaf(x))

\* The number of surviving nodes among items 1..i.
NodeCount(items, i) == Cardinality({j \in 1..i : IsNodeAt(items, j)})

\* C3: a paragraph whose folded children list is empty is removed from its
\* parent, its :^x: tokens are appended in order to the tokens of the nearest
\* surviving sibling before it, and its :x^: tokens are appended in order to the
\* tokens of the nearest surviving sibling after it.
C3_DissolutionRouting ==
    pc = "done" =>
        \A c \in Parents(input) : \A k \in 1..Len(c.children) :
            IsDissolved(c, k) =>
                LET d == c.children[k]
                    items == AllItems(c)
                    lo == Len(ItemsUpTo(c, k - 1)) + 1
                    hi == Len(ItemsUpTo(c, k))
                    prev == PrevNode(items, lo)
                    next == NextNode(items, hi)
                IN
                /\ \A n \in Nodes(result) : PositionOf(n) # d.position
                /\ prev >= 1 =>
                     /\ Became(c) # {}
                     /\ IsInfix(IdsOfKind(AllItems(d), "before"),
                                TokensOf(KeptChildrenOf(c)[NodeCount(items, prev)]))
                /\ next <= Len(items) =>
                     /\ Became(c) # {}
                     /\ IsInfix(IdsOfKind(AllItems(d), "after"),
                                TokensOf(KeptChildrenOf(c)[NodeCount(items, next)]))

\* A dissolved paragraph between two surviving siblings, with a token for each.
C3_Witness ==
    /\ pc = "done"
    /\ \E c \in Parents(input) : \E k \in 2..(Len(c.children) - 1) :
         /\ IsDissolved(c, k)
         /\ Len(IdsOfKind(AllItems(c.children[k]), "before")) > 0
         /\ Len(IdsOfKind(AllItems(c.children[k]), "after")) > 0
         /\ PrevNode(AllItems(c), Len(ItemsUpTo(c, k - 1)) + 1) >= 1
         /\ NextNode(AllItems(c), Len(ItemsUpTo(c, k))) <= Len(AllItems(c))

\* C4: the root is never dissolved, and the tokens no surviving child of the
\* root could take end up in root.data.tokens, the leftover before tokens first
\* and the leftover after tokens second.
C4_RootFallback ==
    pc = "done" =>
        /\ result.type = "root"
        /\ PositionOf(result) = PositionOf(input)
        /\ TokensOf(result) =
             LeftoverBefore(AllItems(input)) \o LeftoverAfter(AllItems(input))

\* The root took a leftover before token and a leftover after token of a
\* dissolved paragraph (as in `:a^: :^b:`).
C4_Witness ==
    /\ pc = "done"
    /\ \E k \in 1..Len(input.children) : IsDissolved(input, k)
    /\ Len(LeftoverBefore(AllItems(input))) > 0
    /\ Len(LeftoverAfter(AllItems(input))) > 0
    /\ Len(TokensOf(result)) >= 2

TextLeavesOf(node) == {n \in Nodes(node) : isText(n)}

\* C5 (as amended): if some text leaf of the input, at any depth, carries a
\* non-empty `tokens` list, parseTokens never returns, and the error is raised
\* only at such a leaf.
C5_Guard ==
    /\ (\E n \in TextLeavesOf(input) : Len(TokensOf(n)) > 0) => pc # "done"
    /\ pc = "error" => isText(Child) /\ Len(TokensOf(Child)) > 0

\* C5 as stated: any `tokens` entry on a text leaf, the empty list included,
\* keeps parseTokens from returning.
C5_AsStated ==
    (\E n \in TextLeavesOf(input) : "data" \in DOMAIN n /\ "tokens" \in DOMAIN n.data)
        => pc # "done"

\* The error was raised at a text leaf with tokens inside a nested container.
C5_Witness ==
    /\ pc = "error"
    /\ Len(stack) > 1
    /\ Len(TokensOf(Child)) > 0

\* The spans of all text leaves of a tree, in document order.
AllSpans(root) ==
    LET leaves == TextLeafSeq(root) IN
    Flatten([k \in 1..Len(leaves) |-> SpansOf(leaves[k].value)])

\* C7: in the returned tree the text leaves that satisfy isToken are exactly
\* the NEUTRAL matches of the input texts, in order; each has the value
\* ":" + token + ":" with a token that is a non-empty string without whitespace,
\* ":" or "^"; and the token of a neutral match is in no `tokens` list.
C7_NeutralTokens ==
    pc = "done" =>
        LET leaves == TextLeafSeq(result)
            marked == SelectSeq(leaves, isToken)
            neutral == SelectSeq(AllSpans(input), InNEUTRAL)
        IN
        /\ [k \in 1..Len(marked) |-> marked[k].value] = neutral
        /\ \A k \in 1..Len(leaves) :
             IF isToken(leaves[k])
             THEN /\ leaves[k].value = <<":">> \o leaves[k].data.token \o <<":">>
                  /\ IsTokenString(leaves[k].data.token)
             ELSE ~InNEUTRAL(leaves[k].value)
        /\ \A k \in 1..Len(marked) : \A n \in Nodes(result) :
             marked[k].data.token \notin ToSet(TokensOf(n))

\* A returned tree with a token leaf that took an assignment token, next to a
\* text leaf that is no token.
C7_Witness ==
    /\ pc = "done"
    /\ \E n \in TextLeavesOf(result) : isToken(n) /\ Len(TokensOf(n)) > 0
    /\ \E n \in TextLeavesOf(result) : ~isToken(n)

\* No text leaf of the tree holds NEUTRAL, BEFORE or AFTER syntax.
NoTokenSyntax(root) == \A n \in TextLeavesOf(root) : ~HasTokenSyntax(n.value)

\* The tree with every text leaf replaced by a fresh leaf of the same value,
\* the empty text leaves dropped and the paragraphs left without children
\* dropped.
RECURSIVE Untouched(_)
Untouched(node) ==
    LET keep(child) ==
            IF isParent(child)
            THEN IF child.type = "paragraph" /\ Len(Untouched(child).children) = 0
                 THEN <<>> ELSE <<Untouched(child)>>
            ELSE IF isText(child)
            THEN IF Len(child.value) = 0 THEN <<>>
                 ELSE <<[type |-> "text", value |-> child.value]>>
            ELSE <<child>>
    IN [node EXCEPT !.children = Flatten([k \in 1..Len(node.children) |-> keep(node.children[k])])]

HasMetadata(n) == "data" \in DOMAIN n /\ DOMAIN n.data \cap {"tokens", "token"} # {}

\* C8 (as amended): if no text leaf holds token syntax and no text leaf carries
\* a non-empty `tokens` list, parseTokens returns without error, every
\* non-empty text leaf keeps its value and its place among the others (empty
\* text leaves, and paragraphs left without children, are dropped), and no
\* node of the result has `tokens` or `token` metadata.
C8_NonTokenText ==
    (NoTokenSyntax(input) /\ \A n \in TextLeavesOf(input) : Len(TokensOf(n)) = 0) =>
        /\ pc # "error"
        /\ pc = "done" =>
             /\ result = Untouched(input)
             /\ \A n \in Nodes(result) : ~HasMetadata(n)

\* C8 as stated: for every tree without token syntax parseTokens returns
\* without error, every text leaf is where it was with the value it had, and no
\* metadata is added.
C8_AsStated ==
    NoTokenSyntax(input) =>
        /\ pc # "error"
        /\ pc = "done" =>
             /\ [k \in 1..Len(TextLeafSeq(result)) |-> TextLeafSeq(result)[k].value]
                  = [k \in 1..Len(TextLeafSeq(input)) |-> TextLeafSeq(input)[k].value]
             /\ \A n \in Nodes(result) : ~HasMetadata(n)

\* A returned tree that had a malformed marker next to another node inside a
\* container.
C8_Witness ==
    /\ pc = "done"
    /\ NoTokenSyntax(input)
    /\ \E c \in Parents(result) :
         /\ c.type # "root"
         /\ Len(c.children) >= 2
         /\ \E k \in 1..Len(c.children) :
              isText(c.children[k]) /\ Len(c.children[k].value) = 5

\* C10 (as amended): between two consecutive surviving children that only
\* assignment markers separate, concat inserts exactly one text leaf " " if
\* the match of at least one of those markers holds whitespace on its
\* significant side (after :^t:, in front of :t^:), and none otherwise; such a
\* leaf is never the first or the last child, never next to another one, and
\* never has tokens.
C10_WhitespaceCollapse ==
    pc = "done" =>
        /\ Shape(result) = Shape(Ref(input, "code"))
        /\ \A c \in Parents(result) : \A k \in 1..Len(c.children) :
             IsSpaceLeaf(c.children[k]) =>
                /\ k > 1 /\ k < Len(c.children)
                /\ ~IsSpaceLeaf(c.children[k - 1]) /\ ~IsSpaceLeaf(c.children[k + 1])
                /\ "data" \notin DOMAIN c.children[k]

\* C10 as stated: the leaf is inserted whenever the text has whitespace on the
\* significant side of one of the markers.
C10_AsStated ==
    pc = "done" => Shape(result) = Shape(Ref(input, "sourceSpace"))

\* Two surviving children separated by two markers, of which only one holds
\* whitespace on its significant side, with the one whitespace leaf between them.
C10_Witness ==
    /\ pc = "done"
    /\ \E c \in Parents(result) : \E k \in 1..Len(c.children) : IsSpaceLeaf(c.children[k])
    /\ \E c \in Parents(input) :
         LET items == AllItems(c) IN
         \E i \in 1..Len(items) :
            /\ IsNodeAt(items, i)
            /\ NextNode(items, i) <= Len(items)
            /\ NextNode(items, i) >= i + 3
            /\ SpaceBetween(items, i, NextNode(items, i), "code")
            /\ \E k \in (i + 1)..(NextNode(items, i) - 1) : ~items[k].space

\* The tree without the paragraphs that the walk leaves without children.
RECURSIVE RemoveDissolved(_)
RemoveDissolved(node) ==
    IF ~isParent(node) THEN node
    ELSE [node EXCEPT !.children =
            Flatten([k \in 1..Len(node.children) |->
                        IF IsDissolved(node, k) THEN <<>>
                        ELSE <<RemoveDissolved(node.children[k])>>])]

\* Some paragraph of the tree is left without children by the walk.
HasDissolved(root) ==
    \E c \in Parents(root) : \E k \in 1..Len(c.children) : IsDissolved(c, k)

\* C11: when a paragraph is dissolved, the children of every container are the
\* ones it would have without the dissolved paragraph, in the same order: no
\* node, and no whitespace text leaf in particular, is put in its place or next
\* to it, whatever whitespace its markers hold and wherever it sits.
C11_DissolutionAddsNothing ==
    (pc = "done" /\ HasDissolved(input)) =>
        Shape(result) = Shape(Ref(RemoveDissolved(input), "code"))

\* The number of times each element occurs in a sequence.
BagOf(seq) == [x \in ToSet(seq) |-> Cardinality({k \in 1..Len(seq) : seq[k] = x})]

\* The identifiers of the BEFORE and AFTER matches of the text leaves of a
\* tree / of the first n children of a container, in document order.
AssignedIn(node) ==
    LET marks == SelectSeq(AllSpans(node), IsAssignmentSpan) IN
    [k \in 1..Len(marks) |-> IdentifierOf(marks[k])]

AssignedInFirst(node, n) == Flatten([k \in 1..n |-> AssignedIn(node.children[k])])

\* The tokens of all `tokens` lists of a tree.
RECURSIVE AttachedIn(_)
AttachedIn(node) ==
    TokensOf(node)
    \o Flatten([k \in 1..Len(ChildrenOf(node)) |-> AttachedIn(node.children[k])])

\* The tokens a fragment holds: on the nodes of its children and in its two
\* unresolved buckets.
HeldBy(frag) ==
    Flatten([k \in 1..Len(frag.children) |-> AttachedIn(frag.children[k])])
    \o frag.tokens.before \o frag.tokens.after

\* The tokens of the fragments that the scanner of the current text child has
\* still to yield.
ToYield(frame) == Flatten([k \in 1..Len(frame.frags) |-> HeldBy(frame.frags[k])])

\* The children of the frame's node that its fold has taken up: the ones
\* merged, and the text child whose fragments are being merged.
TakenUp(frame) == IF Len(frame.frags) > 0 THEN frame.i + 1 ELSE frame.i

\* No node of the tree has a `tokens` entry.
NoTokensMetadata(root) ==
    \A n \in Nodes(root) : ~("data" \in DOMAIN n /\ "tokens" \in DOMAIN n.data)

\* C12: on a tree without `tokens` metadata, the tokens in the `tokens` lists
\* of the returned tree are, as a multiset, the identifiers of the BEFORE and
\* AFTER matches of the input text leaves; and at every step of every fold in
\* progress, the tokens recognized so far among the children of its node are,
\* as a multiset, the tokens on the nodes of its fragment together with the
\* tokens in the two unresolved buckets of its fragment.
C12_TokenConservation ==
    NoTokensMetadata(input) =>
        /\ pc = "done" => BagOf(AttachedIn(result)) = BagOf(AssignedIn(input))
        /\ pc = "run" =>
             \A d \in 1..Len(stack) :
                BagOf(HeldBy(stack[d].state) \o ToYield(stack[d]))
                    = BagOf(AssignedInFirst(stack[d].node, TakenUp(stack[d])))

\* parseTokens returned a tree in which the root, a container and a leaf each
\* hold a token.
C12_Witness ==
    /\ pc = "done"
    /\ NoTokensMetadata(input)
    /\ Len(TokensOf(result)) > 0
    /\ \E n \in Nodes(result) : n.type = "emphasis" /\ Len(TokensOf(n)) > 0
    /\ \E n \in TextLeavesOf(result) : Len(TokensOf(n)) > 0

(***************************************************************************)
(* concat on its own (specification SpecAlg): three fragments, each one a  *)
(* fragment of the scanner or of a returning parseNode or the merge of two *)
(* of them, are merged in both groupings.  The tokens of the three         *)
(* fragments are distinct.                                                 *)
(***************************************************************************)
MarkerTexts(l) ==
    { <<l>>,
      <<":", "^", l, ":">>,
      <<":", "^", l, ":", " ">>,
      <<":", l, "^", ":">>,
      <<" ", ":", l, "^", ":">> }

\* What parseText yields for a one-fragment text, and what parseNode returns
\* for an emphasis that holds one marker.
SimpleFragments(l) ==
    UNION { UNION { IF v = <<":", "^", l, ":">>
                    THEN { frag, ParseNodeResult([type |-> "emphasis", children |-> <<>>], frag) }
                    ELSE { frag }
                  : frag \in { parseText(v)[1] } }
          : v \in MarkerTexts(l) }

\* One-fragment operands over the token name l1, and what concat makes of one
\* of them followed by a one-fragment operand over l2.
Operands(l1, l2) ==
    UNION { {x} \cup { concat(x, y) : y \in SimpleFragments(l2) }
          : x \in SimpleFragments(l1) }

\* The token names of the three operands.
OperandNames == [a |-> <<"a", "b">>, b |-> <<"c", "d">>, c |-> <<"e", "f">>]

OperandSets == [k \in DOMAIN OperandNames |-> Operands(OperandNames[k][1], OperandNames[k][2])]

InitAlg ==
    /\ \E sets \in {OperandSets} :
        /\ fa \in sets.a
        /\ fb \in sets.b
        /\ fc \in sets.c
    /\ left = <<>>
    /\ right = <<>>
    /\ algpc = "start"
    /\ ScannerIdle
    /\ TreeIdle

MergeLeft ==
    /\ algpc = "start"
    /\ left' = concat(concat(fa, fb), fc)
    /\ algpc' = "left"
    /\ UNCHANGED <<fa, fb, fc, right, scanVars, treeVars>>

MergeRight ==
    /\ algpc = "left"
    /\ right' = concat(fa, concat(fb, fc))
    /\ algpc' = "both"
    /\ UNCHANGED <<fa, fb, fc, left, scanVars, treeVars>>

NextAlg == MergeLeft \/ MergeRight

SpecAlg == InitAlg /\ [][NextAlg]_vars

\* The children of a fragment without their tokens / with their token sets.
ChildShapes(frag) == [k \in 1..Len(frag.children) |-> Shape(frag.children[k])]
ChildTokenSets(frag) == [k \in 1..Len(frag.children) |-> ToSet(TokensOf(frag.children[k]))]
ChildTokenCounts(frag) == [k \in 1..Len(frag.children) |-> Len(TokensOf(frag.children[k]))]

\* C9 (as amended): concat(concat(a, b), c) and concat(a, concat(b, c)) have the
\* same children (whitespace leaves included), the same unresolved before and
\* after tokens, the same space flags, and on every child the same tokens, but
\* not always in the same order.
C9_AssociativeUpToOrder ==
    algpc = "both" =>
        /\ ChildShapes(left) = ChildShapes(right)
        /\ ChildTokenSets(left) = ChildTokenSets(right)
        /\ ChildTokenCounts(left) = ChildTokenCounts(right)
        /\ left.tokens = right.tokens
        /\ left.space = right.space

\* C9 as stated: the two groupings give the same fragment, the order of the
\* tokens on every node included.
C9_AsStated == algpc = "both" => left = right

\* Both groupings are computed, with a whitespace leaf between two children
\* and a child that took two tokens.
C9_Witness ==
    /\ algpc = "both"
    /\ \E k \in 1..Len(left.children) : IsSpaceLeaf(left.children[k])
    /\ \E k \in 1..Len(left.children) : Len(TokensOf(left.children[k])) >= 2

====
